---- MODULE Spec2Model ----
(***************************************************************************)
(* Model of dashboard.py, the Streamlit page "Daily Death Monitor - Gaza". *)
(* A page run executes the script top to bottom: sidebar widgets, the      *)
(* cached load_data(), the date slider and the date mask, the daily        *)
(* series (diff / rolling mean), the metric cards and the category pie.    *)
(* The st.cache_data store of load_data survives from one run to the next. *)
(*                                                                         *)
(* A cell of a pandas column is <<>> (NaN / None / NaT) or <<v>>.          *)
(* A DataFrame is [columns |-> set of names, rows |-> sequence of rows],   *)
(* a row being a function from the columns to cells.                       *)
(***************************************************************************)
EXTENDS Integers, Sequences, FiniteSets, TLC

\* ---------------------------------------------------------------- bounds
MaxReports == 3
MaxCum == 2
MaxRecords == 2
MaxWindow == 2

\* ------------------------------------------------------ program constants
WindowMin == 1
WindowMax == 30
MinPeriods == 1
ChildAge == 18
SeniorAge == 60

NaN == <<>>
isna(c) == c = NaN
Val(c) == c[1]

Min2(a, b) == IF a <= b THEN a ELSE b
Max2(a, b) == IF a >= b THEN a ELSE b

\* ------------------------------------------------------- pandas primitives
\* df[c] : the column as a sequence of cells.
Col(df, c) == [i \in 1..Len(df.rows) |-> df.rows[i][c]]

\* pd.DataFrame(list of JSON objects): the columns are the union of the keys,
\* a key an object lacks is NaN in its row.
DataFrame(items) ==
    LET cols == UNION {DOMAIN items[i] : i \in 1..Len(items)}
    IN  [columns |-> cols,
         rows |-> [i \in 1..Len(items) |->
                     [c \in cols |-> IF c \in DOMAIN items[i]
                                     THEN <<items[i][c]>> ELSE NaN]]]

\* df[c] = series (a new column, or the replacement of an old one).
SetColumn(df, c, series) ==
    [columns |-> df.columns \cup {c},
     rows |-> [i \in 1..Len(df.rows) |->
                 [k \in df.columns \cup {c} |->
                     IF k = c THEN series[i] ELSE df.rows[i][k]]]]

\* df[c] = None
SetColumnNone(df, c) == SetColumn(df, c, [i \in 1..Len(df.rows) |-> NaN])

\* A report_date text no date parser accepts.
BadDateText == 0

\* A Timestamp counts hours; the date text of day d parses to midnight of day d.
HoursPerDay == 24

\* pd.to_datetime(series, errors='coerce'): an unparseable text becomes NaT.
to_datetime(series) ==
    [i \in 1..Len(series) |->
        IF isna(series[i]) \/ Val(series[i]) = BadDateText
        THEN NaN ELSE <<Val(series[i]) * HoursPerDay>>]

NotNa(series) == {Val(series[i]) : i \in {j \in 1..Len(series) : ~isna(series[j])}}

\* Series.min() / Series.max(): missing cells are skipped, NaN when none is left.
SeriesMin(series) ==
    IF NotNa(series) = {} THEN NaN
    ELSE <<CHOOSE m \in NotNa(series) : \A x \in NotNa(series) : m <= x>>
SeriesMax(series) ==
    IF NotNa(series) = {} THEN NaN
    ELSE <<CHOOSE m \in NotNa(series) : \A x \in NotNa(series) : m >= x>>

\* Series.diff(): NaN in the first row and wherever an operand is missing.
diff(series) ==
    [i \in 1..Len(series) |->
        IF i = 1 \/ isna(series[i]) \/ isna(series[i - 1]) THEN NaN
        ELSE <<Val(series[i]) - Val(series[i - 1])>>]

\* Series.fillna(other): a missing cell takes the cell of other in the same row.
fillna(series, other) ==
    [i \in 1..Len(series) |-> IF isna(series[i]) THEN other[i] ELSE series[i]]

\* Series.rolling(window, min_periods).mean(): the window sum is kept by adding
\* the entering row and removing the row that left; the mean is sum / nobs,
\* kept here as the fraction [num, den], and NaN below min_periods.
RollAdd(st, c) ==
    IF isna(c) THEN st ELSE [sum |-> st.sum + Val(c), nobs |-> st.nobs + 1]
RollRemove(st, c) ==
    IF isna(c) THEN st ELSE [sum |-> st.sum - Val(c), nobs |-> st.nobs - 1]

RECURSIVE RollState(_, _, _)
RollState(series, w, i) ==
    IF i = 0 THEN [sum |-> 0, nobs |-> 0]
    ELSE LET a == RollAdd(RollState(series, w, i - 1), series[i])
         IN  IF i > w THEN RollRemove(a, series[i - w]) ELSE a

rolling_mean_full(series, w, minp) ==
    [i \in 1..Len(series) |->
        LET st == RollState(series, w, i)
        IN  IF st.nobs >= w /\ st.nobs > 0
            THEN <<[num |-> st.sum, den |-> st.nobs]>> ELSE NaN]

rolling_mean(series, w, minp) ==
    [i \in 1..Len(series) |->
        LET st == RollState(series, w, i)
        IN  IF st.nobs >= minp /\ st.nobs > 0
            THEN <<[num |-> st.sum, den |-> st.nobs]>> ELSE NaN]

\* df[mask]: the rows whose mask is true, in their original order.
RECURSIVE Keep(_, _, _)
Keep(rows, mask, i) ==
    IF i = 0 THEN <<>>
    ELSE IF mask[i] THEN Append(Keep(rows, mask, i - 1), rows[i])
         ELSE Keep(rows, mask, i - 1)

BoolIndex(df, mask) ==
    [columns |-> df.columns, rows |-> Keep(df.rows, mask, Len(df.rows))]

\* Series.value_counts(): the count of every value present, missing cells left out.
value_counts(series) ==
    [v \in NotNa(series) |->
        Cardinality({i \in 1..Len(series) : series[i] = <<v>>})]


\* ------------------------------------------------------- the remote datasets
\* An HTTP exchange: no response at all (net = "error"), or a status and a body
\* that is not JSON ("text"), a JSON object of scalars ("object") or a JSON
\* list of objects ("list").
NoResponse == [net |-> "error", status |-> 0, body |-> [kind |-> "none", items |-> <<>>]]
Response(st, kind, items) ==
    [net |-> "ok", status |-> st, body |-> [kind |-> kind, items |-> items]]

SeqsFromTo(S, lo, hi) == UNION {[1..n -> S] : n \in lo..hi}

\* A JSON object holding the keys of r that are present.
JsonObject(r) == [k \in {x \in DOMAIN r : ~isna(r[x])} |-> Val(r[k])]

Ages == {ChildAge - 1, ChildAge, SeniorAge}

\* killed-in-gaza items: age and sex are each present or absent.
KilledObjects ==
    {JsonObject(r) : r \in [age : {NaN} \cup {<<a>> : a \in Ages},
                            sex : {NaN, <<"m">>, <<"f">>}]}

\* The list is never empty here: DataFrame.apply(axis=1) on an empty frame
\* returns a frame, and what line 173 does with it depends on the pandas build.
KilledPayloads == SeqsFromTo(KilledObjects, 1, MaxRecords)

\* casualties_daily items: day i is reported in row i, with a date text that
\* parses or not; injured_cum is in every item or, in a list of at most one
\* item, in none.
CasualtyPayloads ==
    UNION {
      { [i \in 1..n |->
            IF inj
            THEN [report_date |-> IF ok[i] THEN i ELSE BadDateText,
                  killed_cum |-> cum[i], injured_cum |-> i]
            ELSE [report_date |-> IF ok[i] THEN i ELSE BadDateText,
                  killed_cum |-> cum[i]]]
        : ok \in [1..n -> BOOLEAN], cum \in [1..n -> 1..MaxCum],
          inj \in (IF n <= 1 THEN BOOLEAN ELSE {TRUE}) }
      : n \in 0..MaxReports }

SampleKilled ==
    << [age |-> 5, sex |-> "m"], [sex |-> "f"],
       [age |-> 65, sex |-> "m"], [age |-> 40, sex |-> "f"] >>

SampleReports ==
    << [report_date |-> 1, killed_cum |-> 10, injured_cum |-> 20],
       [report_date |-> 2, killed_cum |-> 15, injured_cum |-> 30],
       [report_date |-> 3, killed_cum |-> 13, injured_cum |-> 40] >>

\* What an endpoint that is down or broken answers.
ErrorList == << [message |-> "error"] >>
FailedResponses ==
    { NoResponse,
      Response(200, "text", <<>>),
      Response(500, "text", <<>>),
      Response(500, "object", <<>>),
      Response(500, "list", ErrorList) }

\* The answers of the two endpoints to one load: one of them varies over its
\* payloads or its failures while the other serves the sample.
ResponsePairs ==
    ({Response(200, "list", k) : k \in KilledPayloads} \cup FailedResponses)
        \X {Response(200, "list", SampleReports)}
    \cup
    {Response(200, "list", SampleKilled)}
        \X ({Response(200, "list", c) : c \in CasualtyPayloads} \cup FailedResponses)

\* ------------------------------------------------------------- load_data
Raise(e) == [exc |-> e]
Return(v) == [exc |-> "none", value |-> v]

\* pd.DataFrame(requests.get(url).json())
fetch_frame(r) ==
    IF r.net = "error" THEN Raise("ConnectionError")
    ELSE IF r.body.kind = "text" THEN Raise("JSONDecodeError")
    ELSE IF r.body.kind = "object" THEN Raise("ValueError")
    ELSE Return(DataFrame(r.body.items))

\* for col in ['age', 'sex']: if col not in df_killed.columns: df_killed[col] = None
default_columns(df) ==
    LET a == IF "age" \in df.columns THEN df ELSE SetColumnNone(df, "age")
    IN  IF "sex" \in a.columns THEN a ELSE SetColumnNone(a, "sex")

\* The body of load_data on the answers r1 (killed) and r2 (casualties): the
\* exception it raises, or the pair it returns; requests counts the GETs sent.
load_data(r1, r2) ==
    LET k == fetch_frame(r1)
    IN  IF k.exc # "none" THEN [exc |-> k.exc, requests |-> 1]
        ELSE LET c == fetch_frame(r2)
             IN  IF c.exc # "none" THEN [exc |-> c.exc, requests |-> 2]
                 ELSE IF "report_date" \notin c.value.columns
                 THEN [exc |-> "KeyError", requests |-> 2]
                 ELSE [exc |-> "none", requests |-> 2,
                       killed |-> default_columns(k.value),
                       casualties |->
                           SetColumn(c.value, "report_date",
                                     to_datetime(Col(c.value, "report_date")))]

\* ---------------------------------------------------------------- state
VARIABLES
    cache,                   \* the st.cache_data entry of load_data()
    pc,                      \* where the script is
    window, refresh,         \* the sidebar widgets of this run
    df_killed, df_casualties,
    start_date, end_date,
    df_casualties_filtered,
    daily,
    metrics,
    category_counts,
    error,                   \* the exception that ended this run, or "none"
    http,                    \* the answers load_data received in this run
    hadSnapshot,             \* the cache held a snapshot when this run started
    firstRun                 \* this run is the first of the process

vars == << cache, pc, window, refresh, df_killed, df_casualties, start_date,
           end_date, df_casualties_filtered, daily, metrics, category_counts,
           error, http, hadSnapshot, firstRun >>

EmptyFrame == [columns |-> {}, rows |-> <<>>]
NoSnapshot == [full |-> FALSE, killed |-> EmptyFrame, casualties |-> EmptyFrame]
Snapshot(k, c) == [full |-> TRUE, killed |-> k, casualties |-> c]
NoMetrics ==
    [total_latest |-> NaN, children_count |-> 0, men_count |-> 0,
     women_count |-> 0, injured_total |-> NaN]
NoCounts == [v \in {} |-> 0]
NoDate == 0

Windows == WindowMin..Min2(WindowMax, MaxWindow)

\* ------------------------------------------------- the script, line by line
\* Timestamp.date() / Series.dt.date: the day the timestamp falls in.
date(ts) == ts \div HoursPerDay

\* NaT.date() is NaT.
date_of(c) == IF isna(c) THEN NaN ELSE <<date(Val(c))>>

\* lines 62-63
min_date == date_of(SeriesMin(Col(df_casualties, "report_date")))
max_date == date_of(SeriesMax(Col(df_casualties, "report_date")))

\* lines 73-74: a comparison with NaT is False.
date_mask_either(df, s, e) ==
    [i \in 1..Len(df.rows) |->
        LET d == df.rows[i]["report_date"]
        IN  ~isna(d) /\ (date(Val(d)) >= s \/ date(Val(d)) <= e)]

date_mask(df, s, e) ==
    [i \in 1..Len(df.rows) |->
        LET d == df.rows[i]["report_date"]
        IN  (~isna(d) /\ date(Val(d)) >= s) /\ (~isna(d) /\ date(Val(d)) <= e)]

\* lines 72-75
filter_by_date(df, s, e) == BoolIndex(df, date_mask(df, s, e))

\* line 81
daily_deaths_clamped(killed_cum) ==
    [i \in 1..Len(killed_cum) |->
        LET d == fillna(diff(killed_cum), killed_cum)[i]
        IN  IF ~isna(d) /\ Val(d) < 0 THEN <<0>> ELSE d]

daily_deaths(killed_cum) == fillna(diff(killed_cum), killed_cum)

\* lines 80-81 with the delta taken before the date mask is applied
deaths_column_unfiltered ==
    LET all == daily_deaths(Col(df_casualties, "killed_cum"))
        mask == date_mask(df_casualties, start_date, end_date)
    IN  Keep(all, mask, Len(all))

\* lines 80-81
deaths_column == daily_deaths(Col(df_casualties_filtered, "killed_cum"))

\* lines 80-82
daily_frame ==
    LET n == Len(df_casualties_filtered.rows)
        ma == rolling_mean(deaths_column, window, MinPeriods)
    IN  [columns |-> {"report_date", "killed_cum", "deaths", "ma"},
         rows |-> [i \in 1..n |->
                     [report_date |-> df_casualties_filtered.rows[i]["report_date"],
                      killed_cum |-> df_casualties_filtered.rows[i]["killed_cum"],
                      deaths |-> deaths_column[i],
                      ma |-> ma[i]]]]

\* line 143
total_latest_filtered == SeriesMax(Col(df_casualties_filtered, "killed_cum"))
total_latest == SeriesMax(Col(df_casualties, "killed_cum"))

\* line 146: NaN < 18 is False.
children_count ==
    Cardinality({i \in 1..Len(df_killed.rows) :
        ~isna(df_killed.rows[i]["age"]) /\ Val(df_killed.rows[i]["age"]) < ChildAge})
\* line 149
men_count ==
    Cardinality({i \in 1..Len(df_killed.rows) : df_killed.rows[i]["sex"] = <<"m">>})
\* line 152
women_count ==
    Cardinality({i \in 1..Len(df_killed.rows) : df_killed.rows[i]["sex"] = <<"f">>})
\* line 155
injured_total ==
    IF "injured_cum" \in df_casualties.columns
    THEN SeriesMax(Col(df_casualties, "injured_cum")) ELSE <<0>>

\* lines 161-171
categorize_sex_first(row) ==
    IF isna(row["age"]) THEN "Others"
    ELSE IF row["sex"] = <<"f">> THEN "Women"
    ELSE IF Val(row["age"]) < ChildAge THEN "Children"
    ELSE IF Val(row["age"]) >= SeniorAge THEN "Seniors"
    ELSE "Others"

categorize_men(row) ==
    IF isna(row["age"]) THEN "Others"
    ELSE IF Val(row["age"]) < ChildAge THEN "Children"
    ELSE IF row["sex"] = <<"f">> THEN "Women"
    ELSE IF Val(row["age"]) >= SeniorAge THEN "Seniors"
    ELSE IF row["sex"] = <<"m">> THEN "Men"
    ELSE "Others"

categorize(row) ==
    IF isna(row["age"]) THEN "Others"
    ELSE IF Val(row["age"]) < ChildAge THEN "Children"
    ELSE IF row["sex"] = <<"f">> THEN "Women"
    ELSE IF Val(row["age"]) >= SeniorAge THEN "Seniors"
    ELSE "Others"

\* line 173: df_killed.apply(categorize, axis=1)
category_column(df) == [i \in 1..Len(df.rows) |-> <<categorize(df.rows[i])>>]

\* lines 54-55: the cache entry after "if refresh: load_data.clear()"
cache_never_cleared(c, r) == c
cache_after_clear(c, r) == IF r THEN NoSnapshot ELSE c

\* What the run keeps of an answer.
Summary(r) == [net |-> r.net, status |-> r.status, kind |-> r.body.kind]

\* -------------------------------------------------------------- page runs
Init ==
    /\ cache = NoSnapshot
    /\ pc = "idle"
    /\ window = WindowMin
    /\ refresh = FALSE
    /\ df_killed = EmptyFrame
    /\ df_casualties = EmptyFrame
    /\ start_date = NoDate
    /\ end_date = NoDate
    /\ df_casualties_filtered = EmptyFrame
    /\ daily = EmptyFrame
    /\ metrics = NoMetrics
    /\ category_counts = NoCounts
    /\ error = "none"
    /\ http = <<>>
    /\ hadSnapshot = FALSE
    /\ firstRun = FALSE

\* lines 21-34: a run starts (the first one, or a rerun after a widget event);
\* the script's variables start afresh and the sidebar widgets are read. The
\* button is True only in the run its click triggered, so not in the first run.
Sidebar ==
    /\ pc \in {"idle", "done", "aborted"}
    /\ \E w \in Windows : window' = w
    /\ \E b \in (IF pc = "idle" THEN {FALSE} ELSE BOOLEAN) : refresh' = b
    /\ firstRun' = (pc = "idle")
    /\ hadSnapshot' = cache.full
    /\ http' = <<>>
    /\ error' = "none"
    /\ df_killed' = EmptyFrame
    /\ df_casualties' = EmptyFrame
    /\ start_date' = NoDate
    /\ end_date' = NoDate
    /\ df_casualties_filtered' = EmptyFrame
    /\ daily' = EmptyFrame
    /\ metrics' = NoMetrics
    /\ category_counts' = NoCounts
    /\ pc' = "clear"
    /\ UNCHANGED cache

\* lines 54-55
ClearCache ==
    /\ pc = "clear"
    /\ cache' = cache_after_clear(cache, refresh)
    /\ pc' = "load"
    /\ UNCHANGED << window, refresh, df_killed, df_casualties, start_date,
                    end_date, df_casualties_filtered, daily, metrics,
                    category_counts, error, http, hadSnapshot, firstRun >>

\* line 57 (and 39-52): a cached call returns the stored pair without running
\* the body; otherwise the body runs, its return value is stored, and an
\* exception it raises ends the run with nothing stored.
LoadData ==
    /\ pc = "load"
    /\ IF cache.full
       THEN /\ df_killed' = cache.killed
            /\ df_casualties' = cache.casualties
            /\ pc' = "slider"
            /\ UNCHANGED << cache, http, error >>
       ELSE \E rr \in ResponsePairs :
              LET res == load_data(rr[1], rr[2])
              IN  /\ http' = IF res.requests = 1 THEN << Summary(rr[1]) >>
                             ELSE << Summary(rr[1]), Summary(rr[2]) >>
                  /\ IF res.exc # "none"
                     THEN /\ error' = res.exc
                          /\ pc' = "aborted"
                          /\ UNCHANGED << cache, df_killed, df_casualties >>
                     ELSE /\ cache' = Snapshot(res.killed, res.casualties)
                          /\ df_killed' = res.killed
                          /\ df_casualties' = res.casualties
                          /\ pc' = "slider"
                          /\ UNCHANGED error
    /\ UNCHANGED << window, refresh, start_date, end_date,
                    df_casualties_filtered, daily, metrics, category_counts,
                    hadSnapshot, firstRun >>

\* lines 62-75: the slider hands back a range inside [min_date, max_date] with
\* start <= end; with no parseable date there is no bound to give it and the
\* run ends there.
DateFilter ==
    /\ pc = "slider"
    /\ IF isna(min_date)
       THEN /\ error' = "StreamlitAPIException"
            /\ pc' = "aborted"
            /\ UNCHANGED << start_date, end_date, df_casualties_filtered >>
       ELSE \E s \in Val(min_date)..Val(max_date) :
            \E e \in s..Val(max_date) :
              /\ start_date' = s
              /\ end_date' = e
              /\ df_casualties_filtered' = filter_by_date(df_casualties, s, e)
              /\ pc' = "derive"
              /\ UNCHANGED error
    /\ UNCHANGED << cache, window, refresh, df_killed, df_casualties, daily,
                    metrics, category_counts, http, hadSnapshot, firstRun >>

\* lines 80-175: the daily series, the metric cards (int() of a missing total
\* raises) and the category counts.
Derive ==
    /\ pc = "derive"
    /\ daily' = daily_frame
    /\ IF isna(total_latest) \/ isna(injured_total)
       THEN /\ error' = "ValueError"
            /\ pc' = "aborted"
            /\ UNCHANGED << metrics, df_killed, category_counts >>
       ELSE /\ metrics' = [total_latest |-> total_latest,
                           children_count |-> children_count,
                           men_count |-> men_count,
                           women_count |-> women_count,
                           injured_total |-> injured_total]
            /\ df_killed' = SetColumn(df_killed, "category", category_column(df_killed))
            /\ category_counts' = value_counts(category_column(df_killed))
            /\ pc' = "done"
            /\ UNCHANGED error
    /\ UNCHANGED << cache, window, refresh, df_casualties, start_date, end_date,
                    df_casualties_filtered, http, hadSnapshot, firstRun >>

Next == Sidebar \/ ClearCache \/ LoadData \/ DateFilter \/ Derive

Spec == Init /\ [][Next]_vars

\* ------------------------------------------- the date mask called on its own
\* The mask of lines 72-75 applied to a loaded report frame and an arbitrary
\* pair of dates, ordered or not.
LoadedReportFrames ==
    {load_data(Response(200, "list", SampleKilled), Response(200, "list", c)).casualties
        : c \in CasualtyPayloads \ {<<>>}}

InitFilter ==
    /\ cache = NoSnapshot
    /\ pc = "call"
    /\ window = WindowMin
    /\ refresh = FALSE
    /\ df_killed = EmptyFrame
    /\ df_casualties \in LoadedReportFrames
    /\ start_date \in 1..MaxReports
    /\ end_date \in 1..MaxReports
    /\ df_casualties_filtered = EmptyFrame
    /\ daily = EmptyFrame
    /\ metrics = NoMetrics
    /\ category_counts = NoCounts
    /\ error = "none"
    /\ http = <<>>
    /\ hadSnapshot = FALSE
    /\ firstRun = FALSE

\* lines 72-75: the expression has no error path, it returns a frame.
FilterCall ==
    /\ pc = "call"
    /\ df_casualties_filtered' = filter_by_date(df_casualties, start_date, end_date)
    /\ error' = "none"
    /\ pc' = "returned"
    /\ UNCHANGED << cache, window, refresh, df_killed, df_casualties, start_date,
                    end_date, daily, metrics, category_counts, http,
                    hadSnapshot, firstRun >>

NextFilter == FilterCall

SpecFilter == InitFilter /\ [][NextFilter]_vars

\* ================================================================ claims
RECURSIVE SumCells(_, _, _)
SumCells(cells, lo, hi) ==
    IF hi < lo THEN 0 ELSE SumCells(cells, lo, hi - 1) + Val(cells[hi])

Cum(df, i) == Val(df.rows[i]["killed_cum"])
InRange(df, i) ==
    /\ ~isna(df.rows[i]["report_date"])
    /\ date(Val(df.rows[i]["report_date"])) >= start_date
    /\ date(Val(df.rows[i]["report_date"])) <= end_date
InRangeRows(df) == {i \in 1..Len(df.rows) : InRange(df, i)}

\* C1: the daily series has one row per filtered report, on the same date, its
\* deaths being the first cumulative value in row 1 and the difference to the
\* previous cumulative value in every later row, negative differences included.
C1_DailyDeathsAreDeltas ==
    pc = "done" =>
        /\ Len(daily.rows) = Len(df_casualties_filtered.rows)
        /\ \A i \in 1..Len(daily.rows) :
            /\ daily.rows[i].report_date = df_casualties_filtered.rows[i]["report_date"]
            /\ daily.rows[i].deaths =
                 << IF i = 1 THEN Cum(df_casualties_filtered, 1)
                    ELSE Cum(df_casualties_filtered, i) - Cum(df_casualties_filtered, i - 1) >>

C1_Witness ==
    /\ pc = "done"
    /\ Len(daily.rows) = 3
    /\ Val(daily.rows[1].deaths) > 0
    /\ Val(daily.rows[2].deaths) > 0
    /\ Val(daily.rows[3].deaths) < 0

\* C2: every record gets the category of the first rule that applies: unknown
\* age Others, under 18 Children, female Women, 60 or more Seniors, else Others.
C2_CategorizePriority ==
    pc = "done" =>
        \A i \in 1..Len(df_killed.rows) :
            LET a == df_killed.rows[i]["age"]
                f == df_killed.rows[i]["sex"] = <<"f">>
                c == df_killed.rows[i]["category"]
            IN  /\ isna(a) => c = <<"Others">>
                /\ (~isna(a) /\ Val(a) < 18) => c = <<"Children">>
                /\ (~isna(a) /\ Val(a) >= 18 /\ f) => c = <<"Women">>
                /\ (~isna(a) /\ Val(a) >= 60 /\ ~f) => c = <<"Seniors">>
                /\ (~isna(a) /\ Val(a) >= 18 /\ Val(a) < 60 /\ ~f) => c = <<"Others">>

C2_Witness ==
    /\ pc = "done"
    /\ \E i, j \in 1..Len(df_killed.rows) :
        /\ df_killed.rows[i]["sex"] = <<"f">>
        /\ df_killed.rows[i]["age"] = <<17>>
        /\ df_killed.rows[i]["category"] = <<"Children">>
        /\ df_killed.rows[j]["sex"] = <<"f">>
        /\ df_killed.rows[j]["age"] = <<60>>
        /\ df_killed.rows[j]["category"] = <<"Women">>

\* C3: whatever range the slider gave, the metric cards are those of the whole
\* snapshot: the largest killed_cum and injured_cum over all reports, and the
\* counts of children, men and women over all records.
C3_MetricsIgnoreDateRange ==
    pc = "done" =>
        LET reports == cache.casualties
            records == cache.killed.rows
        IN  /\ \E i \in 1..Len(reports.rows) :
                  reports.rows[i]["killed_cum"] = metrics.total_latest
            /\ \A i \in 1..Len(reports.rows) :
                  Cum(reports, i) <= Val(metrics.total_latest)
            /\ metrics.children_count =
                 Cardinality({i \in 1..Len(records) :
                    records[i]["age"] # NaN /\ Val(records[i]["age"]) <= 17})
            /\ metrics.men_count =
                 Cardinality({i \in 1..Len(records) : records[i]["sex"] = <<"m">>})
            /\ metrics.women_count =
                 Cardinality({i \in 1..Len(records) : records[i]["sex"] = <<"f">>})
            /\ IF "injured_cum" \in reports.columns
               THEN /\ \E i \in 1..Len(reports.rows) :
                         reports.rows[i]["injured_cum"] = metrics.injured_total
                    /\ \A i \in 1..Len(reports.rows) :
                         Val(reports.rows[i]["injured_cum"]) <= Val(metrics.injured_total)
               ELSE metrics.injured_total = <<0>>

C3_Witness ==
    /\ pc = "done"
    /\ Len(df_casualties_filtered.rows) > 0
    /\ \A i \in 1..Len(df_casualties_filtered.rows) :
          Cum(df_casualties_filtered, i) < Val(metrics.total_latest)
    /\ metrics.children_count > 0
    /\ metrics.men_count > 0

PastLoad == pc \in {"slider", "derive", "done", "aborted"}

\* C4 as stated: a run fetches exactly when it is the first run or its refresh
\* signal is set.
C4_FetchOnlyFirstRunOrRefresh ==
    PastLoad => ((http # <<>>) <=> (firstRun \/ refresh))

\* C4 amended: a run fetches exactly when it started with no stored snapshot or
\* its refresh signal is set; the stored snapshot changes only at a clear on
\* refresh or at a load that fetched, and a load that finds a snapshot hands
\* back that snapshot.
C4_FetchIffNoSnapshotOrRefresh ==
    /\ [](PastLoad => ((http # <<>>) <=> (~hadSnapshot \/ refresh)))
    /\ [][ /\ (cache' # cache) =>
                \/ pc = "clear" /\ refresh
                \/ pc = "load" /\ ~cache.full /\ http' # <<>>
           /\ (pc = "load" /\ cache.full) =>
                /\ http' = <<>>
                /\ df_killed' = cache.killed
                /\ df_casualties' = cache.casualties ]_vars

C4_Witness ==
    /\ pc = "slider"
    /\ ~firstRun
    /\ ~refresh
    /\ ~hadSnapshot
    /\ Len(http) = 2

C6_FullRangeIsIdentity ==
    (pc \in {"derive", "done"} /\ <<start_date>> = min_date /\ <<end_date>> = max_date)
        => df_casualties_filtered = df_casualties

\* C7: the moving average of row i is the mean of deaths over the rows
\* max(first, i - window + 1) .. i, defined in every row; with window 1 it is
\* the deaths value itself.
C7_MovingAverageIsTrailingMean ==
    pc = "done" =>
        \A i \in 1..Len(daily.rows) :
            LET lo == Max2(1, i - window + 1)
                deaths == [k \in 1..Len(daily.rows) |-> daily.rows[k].deaths]
                ma == daily.rows[i].ma
            IN  /\ ma # NaN
                /\ Val(ma).den = i - lo + 1
                /\ Val(ma).num = SumCells(deaths, lo, i)
                /\ window = 1 => Val(ma).num = Val(deaths[i]) /\ Val(ma).den = 1

C7_Witness ==
    /\ pc = "done"
    /\ window = 2
    /\ Len(daily.rows) = 3
    /\ Val(daily.rows[1].ma).den = 1
    /\ Val(daily.rows[3].ma).den = 2
    /\ Val(daily.rows[3].ma).num # Val(daily.rows[1].deaths) + Val(daily.rows[2].deaths)
                                    + Val(daily.rows[3].deaths)

\* A fetch that failed: no response, a non-2xx status, or a body that is not JSON.
Failed(r) == r.net = "error" \/ r.status < 200 \/ r.status > 299 \/ r.kind = "text"

\* C8: a run in which a fetch failed is aborted with nothing derived and
\* nothing stored in the cache.
C8_FailedFetchAborts ==
    (\E i \in 1..Len(http) : Failed(http[i])) =>
        /\ pc = "aborted"
        /\ ~cache.full
        /\ daily = EmptyFrame
        /\ metrics = NoMetrics
        /\ category_counts = NoCounts

Buckets == {"Children", "Women", "Seniors", "Others"}
BucketCount(b) == IF b \in DOMAIN category_counts THEN category_counts[b] ELSE 0

\* C9: every record is in exactly one of the four buckets, so the four counts
\* add up to the number of records.
C9_BucketsPartitionRecords ==
    pc = "done" =>
        /\ DOMAIN category_counts \subseteq Buckets
        /\ \A i \in 1..Len(df_killed.rows) :
              Cardinality({b \in Buckets : df_killed.rows[i]["category"] = <<b>>}) = 1
        /\ BucketCount("Children") + BucketCount("Women") + BucketCount("Seniors")
              + BucketCount("Others") = Len(cache.killed.rows)

C9_Witness ==
    /\ pc = "done"
    /\ Len(df_killed.rows) = 2
    /\ isna(df_killed.rows[1]["age"]) /\ isna(df_killed.rows[1]["sex"])
    /\ df_killed.rows[2]["age"] = <<60>> /\ df_killed.rows[2]["sex"] = <<"m">>
    /\ BucketCount("Others") = 1
    /\ BucketCount("Seniors") = 1

\* C10: in a non-empty filtered series the deaths of the first in-range report
\* are its own killed_cum, and the deaths add up to the killed_cum of the last
\* in-range report.
C10_FirstInRangeDayCarriesCumulative ==
    (pc = "done" /\ InRangeRows(df_casualties) # {}) =>
        LET in == InRangeRows(df_casualties)
            first == CHOOSE i \in in : \A j \in in : i <= j
            last == CHOOSE i \in in : \A j \in in : i >= j
            deaths == [k \in 1..Len(daily.rows) |-> daily.rows[k].deaths]
        IN  /\ Len(daily.rows) = Cardinality(in)
            /\ deaths[1] = df_casualties.rows[first]["killed_cum"]
            /\ SumCells(deaths, 1, Len(deaths)) = Cum(df_casualties, last)

C10_Witness ==
    /\ pc = "done"
    /\ <<start_date>> # min_date
    /\ Len(daily.rows) = 2
    /\ InRangeRows(df_casualties) = {2, 3}
    /\ ~isna(df_casualties.rows[1]["report_date"])
    /\ Cum(df_casualties, 1) < Cum(df_casualties, 2)
    /\ daily.rows[1].deaths = <<Cum(df_casualties, 2)>>
====
